---- MODULE Spec2Model ----
(***************************************************************************)
(* dice_parser (src/src/lib.rs): Lexer::new, parse_expression,             *)
(* Expression::try_from, Expression::eval, roll_dice and DiceLogger.       *)
(*                                                                         *)
(* Machine numbers keep their width.  A u32 is the pair <<hi, lo>> of its  *)
(* two 16-bit halves (TLC's own integers stop at 2^31 - 1).  An f32 is the *)
(* record [k, s, m, e]: k is "fin", "inf" or "nan", s the sign bit, and a  *)
(* finite value is m * 2^e with m < 2^24, e in -149..104, m >= 2^23 unless *)
(* the value is zero (m = 0, e = 0) or subnormal (e = -149).  Arithmetic   *)
(* rounds to nearest, ties to even, as IEEE 754 binary32 does.             *)
(***************************************************************************)
EXTENDS Integers, Sequences, FiniteSets, TLC

Max(a, b) == IF a >= b THEN a ELSE b

Min(a, b) == IF a <= b THEN a ELSE b

RECURSIVE BitLen(_)
BitLen(n) == IF n = 0 THEN 0 ELSE 1 + BitLen(n \div 2)

(* ------------------------------ u32 ------------------------------------ *)

Half == 2^16

U(n) == <<n \div Half, n % Half>>

U32Max == <<Half - 1, Half - 1>>

ULe(a, b) == a[1] < b[1] \/ (a[1] = b[1] /\ a[2] <= b[2])

ULt(a, b) == ULe(a, b) /\ a # b

(* a + b and a * 10 + d before reduction: the hi half may exceed 16 bits.  *)
UAddWide(a, b) == <<a[1] + b[1] + (a[2] + b[2]) \div Half, (a[2] + b[2]) % Half>>

UMul10AddWide(a, d) == <<a[1] * 10 + (a[2] * 10 + d) \div Half, (a[2] * 10 + d) % Half>>

UOverflows(w) == w[1] >= Half

UWrap(w) == <<w[1] % Half, w[2]>>

(* ------------------------------ f32 ------------------------------------ *)

MantBits == 24

EMin == -149

EMax == 104

Fin(s, m, e) == [k |-> "fin", s |-> s, m |-> m, e |-> e]

Zero(s) == Fin(s, 0, 0)

Inf(s) == [k |-> "inf", s |-> s, m |-> 0, e |-> 0]

NaN == [k |-> "nan", s |-> 0, m |-> 0, e |-> 0]

IsZero(x) == x.k = "fin" /\ x.m = 0

(* The f32 nearest to (-1)^s * (m + f) * 2^e, where 0 <= m < 2^31 and f is *)
(* 0, or some fraction in (0,1) when sticky (then m >= 2^26).              *)
Pack(s, m, e, sticky) ==
    LET k == Max(BitLen(m) - MantBits, EMin - e) IN
    IF m = 0 THEN Zero(s)
    ELSE IF k <= 0 THEN Fin(s, m * 2^(0 - k), e + k)
    ELSE IF k >= 32 THEN Zero(s)
    ELSE LET half == 2^(k - 1)
             q    == (m \div half) \div 2
             r    == m - q * half * 2
             up   == r > half \/ (r = half /\ (sticky \/ q % 2 = 1))
             q1   == IF up THEN q + 1 ELSE q
             m2   == IF q1 = 2^MantBits THEN 2^(MantBits - 1) ELSE q1
             e2   == IF q1 = 2^MantBits THEN e + k + 1 ELSE e + k
         IN  IF m2 = 0 THEN Zero(s)
             ELSE IF e2 > EMax THEN Inf(s)
             ELSE Fin(s, m2, e2)

(* A finite non-zero value with its mantissa shifted up to 24 bits.        *)
NormM(x) == x.m * 2^(MantBits - BitLen(x.m))

NormE(x) == x.e - (MantBits - BitLen(x.m))

Neg(x) == IF x.k = "nan" THEN x ELSE [x EXCEPT !.s = 1 - x.s]

AddFinite(a, b) ==
    LET hi == IF a.e >= b.e THEN a ELSE b
        lo == IF a.e >= b.e THEN b ELSE a
        d  == hi.e - lo.e
        sh == Min(d, 5)
        A  == hi.m * 2^sh
        e  == hi.e - sh
        cut == d - sh
        B  == IF cut >= MantBits THEN 0 ELSE lo.m \div 2^cut
        sticky == IF cut >= MantBits THEN TRUE ELSE lo.m % 2^cut # 0
    IN  IF hi.s = lo.s THEN Pack(hi.s, A + B, e, sticky)
        ELSE IF A = B /\ ~sticky THEN Zero(0)
        ELSE IF A > B THEN Pack(hi.s, IF sticky THEN A - B - 1 ELSE A - B, e, sticky)
        ELSE Pack(lo.s, B - A, e, FALSE)

F32Add(a, b) ==
    IF a.k = "nan" \/ b.k = "nan" THEN NaN
    ELSE IF a.k = "inf" /\ b.k = "inf" THEN (IF a.s = b.s THEN a ELSE NaN)
    ELSE IF a.k = "inf" THEN a
    ELSE IF b.k = "inf" THEN b
    ELSE IF IsZero(a) /\ IsZero(b) THEN (IF a.s = 1 /\ b.s = 1 THEN Zero(1) ELSE Zero(0))
    ELSE IF IsZero(a) THEN b
    ELSE IF IsZero(b) THEN a
    ELSE AddFinite(a, b)

F32Sub(a, b) == F32Add(a, Neg(b))

MulFinite(a, b) ==
    LET s   == (a.s + b.s) % 2
        ma  == NormM(a)
        mb  == NormM(b)
        ah  == ma \div 2^12
        al  == ma % 2^12
        bh  == mb \div 2^12
        bl  == mb % 2^12
        mid == ah * bl + al * bh
        u   == (mid % 2^12) * 2^12 + al * bl
        Hi  == ah * bh + mid \div 2^12 + u \div 2^MantBits
        Lo  == u % 2^MantBits
    IN  Pack(s, Hi * 2^6 + Lo \div 2^18, NormE(a) + NormE(b) + 18, Lo % 2^18 # 0)

F32Mul(a, b) ==
    IF a.k = "nan" \/ b.k = "nan" THEN NaN
    ELSE IF (a.k = "inf" /\ IsZero(b)) \/ (IsZero(a) /\ b.k = "inf") THEN NaN
    ELSE IF a.k = "inf" \/ b.k = "inf" THEN Inf((a.s + b.s) % 2)
    ELSE IF IsZero(a) \/ IsZero(b) THEN Zero((a.s + b.s) % 2)
    ELSE MulFinite(a, b)

(* n more quotient bits of rem / den: <<quotient, remainder>>.             *)
RECURSIVE LongDiv(_, _, _, _)
LongDiv(q, rem, den, n) ==
    IF n = 0 THEN <<q, rem>>
    ELSE IF 2 * rem >= den THEN LongDiv(2 * q + 1, 2 * rem - den, den, n - 1)
    ELSE LongDiv(2 * q, 2 * rem, den, n - 1)

DivFinite(a, b) ==
    LET s  == (a.s + b.s) % 2
        ma == NormM(a)
        mb == NormM(b)
        qr == LongDiv(ma \div mb, ma % mb, mb, 27)
    IN  Pack(s, qr[1], NormE(a) - NormE(b) - 27, qr[2] # 0)

F32Div(a, b) ==
    IF a.k = "nan" \/ b.k = "nan" THEN NaN
    ELSE IF (a.k = "inf" /\ b.k = "inf") \/ (IsZero(a) /\ IsZero(b)) THEN NaN
    ELSE IF a.k = "inf" \/ IsZero(b) THEN Inf((a.s + b.s) % 2)
    ELSE IF b.k = "inf" \/ IsZero(a) THEN Zero((a.s + b.s) % 2)
    ELSE DivFinite(a, b)

(* `n as f32` for a u32 n.                                                 *)
U32AsF32(w) ==
    IF w[1] < 2^14 THEN Pack(0, w[1] * Half + w[2], 0, FALSE)
    ELSE Pack(0, w[1] * 2^14 + w[2] \div 4, 2, w[2] % 4 # 0)

(* `x as u32` for an f32 x: truncates toward zero, saturates, NaN is 0.    *)
F32AsU32(x) ==
    IF x.k = "nan" \/ x.s = 1 \/ IsZero(x) THEN U(0)
    ELSE IF x.k = "inf" \/ BitLen(x.m) + x.e > 32 THEN U32Max
    ELSE IF x.e <= 0 - MantBits THEN U(0)
    ELSE IF x.e < 0 THEN U(x.m \div 2^(0 - x.e))
    ELSE <<x.m \div 2^(16 - x.e), (x.m % 2^(16 - x.e)) * 2^x.e>>

(* The f32 of a small integer, for stating expected results.               *)
F(n) == IF n >= 0 THEN U32AsF32(U(n)) ELSE Neg(U32AsF32(U(0 - n)))


(* ------------------------- bounds and inputs ---------------------------- *)

\* Every text of at most MaxLen characters over Alphabet is an input.
MaxLen == 3

\* Every text of at most MaxCoreLen characters over CoreAlphabet is an input.
MaxCoreLen == 5

\* At most MaxDice dice are rolled in one behaviour.
MaxDice == 3

\* random_range(low..=high) draws among the MaxFace lowest values and high.
MaxFace == 2

\* eval is called at most MaxEvals times on one Expression.
MaxEvals == 2

Digits == <<"0", "1", "2", "3", "4", "5", "6", "7", "8", "9">>

Alphabet == {"+", "-", "*", "/", "(", ")", "d", "D", "0", "1", "2", " ", "$", "x"}

CoreAlphabet == {"2", "-", "/", "d", "(", ")"}

TextsUpTo(A, n) == UNION {[1..k -> A] : k \in 0..n}

NamedTexts ==
    { <<"2", "+", "3", "*", "4">>,
      <<"(", "2", "+", "3", ")", "*", "4">>,
      <<"1", "5", "+", "3", "0", "0", "0", "0", "/", "(", "2", "*", "1", "0", ")">>,
      <<"1", "6", "7", "7", "7", "2", "1", "6">>,
      <<"1", "6", "7", "7", "7", "2", "1", "7">>,
      <<"4", "2", "9", "4", "9", "6", "7", "2", "9", "5">>,
      <<"4", "2", "9", "4", "9", "6", "7", "2", "9", "6">>,
      <<"4", "2", "9", "4", "9", "6", "7", "2", "9", "6", "$">>,
      <<"2", "d", "1", "6", "7", "7", "7", "2", "1", "5">>,
      <<"2", "d", "4", "2", "9", "4", "9", "6", "7", "2", "9", "5">>,
      <<"1", "d", "(", "0", "-", "1", ")">>,
      <<"1", "d", "2", "+", "1", "d", "2">>,
      <<"2", " ", "$", " ", "3">>,
      <<"2", " ", "+">> }

Inputs == TextsUpTo(Alphabet, MaxLen) \cup TextsUpTo(CoreAlphabet, MaxCoreLen) \cup NamedTexts

(* ------------------------------ state ----------------------------------- *)

VARIABLES
    input,            \* the &str handed to Expression::try_from
    overflow_checks,  \* the build: TRUE panics on integer overflow, FALSE wraps
    pc,               \* "start", "parsed" (try_from returned) or "aborted" (a panic)
    parsed,           \* what try_from returned
    lexer_left,       \* ghost: Lexer.tokens when try_from returned
    logger,           \* DiceLogger.data of the caller's logger
    rolls,            \* ghost: the number of dice rolled so far
    origin,           \* ghost: for each entry of logger, the path of the node that rolled it
    returned          \* what each eval call returned, in call order

vars == <<input, overflow_checks, pc, parsed, lexer_left, logger, origin, rolls, returned>>

(* ------------------------------ Lexer ----------------------------------- *)

Number(n) == [t |-> "Number", n |-> n, c |-> ""]

Op(c) == [t |-> "Op", n |-> U(0), c |-> c]

Eof == [t |-> "Eof", n |-> U(0), c |-> ""]

IsWhitespace(c) == c = " "

IsDigit(c) == \E i \in 1..10 : Digits[i] = c

ToDigit(c) == (CHOOSE i \in 1..10 : Digits[i] = c) - 1

Reverse(s) == [i \in 1..Len(s) |-> s[Len(s) + 1 - i]]

\* input.chars().filter(|it| !it.is_whitespace())
FilterWhitespace(s) == SelectSeq(s, LAMBDA c : ~IsWhitespace(c))

\* Accumulate with the new digit left out.
AccumulateDropsDigit(number, digit) == UMul10AddWide(number, 0)

\* number = number * 10 + digit, in u32
Accumulate(number, digit) == UMul10AddWide(number, digit)

\* The digits that follow the first one: [st, number, rest].
RECURSIVE LexNumber(_, _)
LexNumber(number, chars) ==
    IF chars = <<>> \/ ~IsDigit(Head(chars))
    THEN [st |-> "ok", number |-> number, rest |-> chars]
    ELSE LET w == Accumulate(number, ToDigit(Head(chars))) IN
         IF UOverflows(w) /\ overflow_checks
         THEN [st |-> "panic", number |-> number, rest |-> chars]
         ELSE LexNumber(UWrap(w), Tail(chars))

\* The while loop of Lexer::new: [st, tokens, msg], tokens in input order.
RECURSIVE LexLoop(_, _)
LexLoop(chars, tokens) ==
    IF chars = <<>> THEN [st |-> "ok", tokens |-> tokens, msg |-> <<>>]
    ELSE LET c == Head(chars) IN
         IF c \in {"+", "-", "*", "/", "(", ")"} THEN LexLoop(Tail(chars), Append(tokens, Op(c)))
         ELSE IF c \in {"d", "D"} THEN LexLoop(Tail(chars), Append(tokens, Op("d")))
         ELSE IF IsDigit(c)
         THEN LET num == LexNumber(U(ToDigit(c)), Tail(chars)) IN
              IF num.st = "panic"
              THEN [st |-> "panic", tokens |-> tokens, msg |-> <<"attempt to multiply with overflow">>]
              ELSE LexLoop(num.rest, Append(tokens, Number(num.number)))
         ELSE [st |-> "err", tokens |-> tokens, msg |-> <<"Unexpected character: ", c>>]

\* Lexer::new: the tokens are stored reversed, the next token last.
LexerNew(text) ==
    LET r == LexLoop(FilterWhitespace(text), <<>>) IN
    IF r.st = "ok" THEN [r EXCEPT !.tokens = Reverse(r.tokens)] ELSE r

\* self.tokens.last().copied().unwrap_or(Token::Eof)
LexerPeek(tokens) == IF tokens = <<>> THEN Eof ELSE tokens[Len(tokens)]

\* what self.tokens.pop() leaves
LexerPop(tokens) == IF tokens = <<>> THEN tokens ELSE SubSeq(tokens, 1, Len(tokens) - 1)

(* ------------------------------ Parser ---------------------------------- *)

NumberExpr(n) == [tag |-> "Number", n |-> n, op |-> "", operands |-> <<>>]

Operation(op, operands) == [tag |-> "Operation", n |-> U(0), op |-> op, operands |-> operands]

\* operation_priority with the pair of '+' and '-' swapped: (1.1, 1.0).
OperationPrioritySwapped(op) ==
    IF op \in {"+", "-"} THEN [st |-> "ok", l_bp |-> 11, r_bp |-> 10, msg |-> <<>>]
    ELSE IF op \in {"*", "/"} THEN [st |-> "ok", l_bp |-> 20, r_bp |-> 21, msg |-> <<>>]
    ELSE IF op = "d" THEN [st |-> "ok", l_bp |-> 30, r_bp |-> 31, msg |-> <<>>]
    ELSE [st |-> "err", l_bp |-> 0, r_bp |-> 0, msg |-> <<"Unknown operator: ", op>>]

\* operation_priority with a catch-all arm that gives every other operator (1.0, 1.1).
OperationPriorityCatchAll(op) ==
    IF op \in {"*", "/"} THEN [st |-> "ok", l_bp |-> 20, r_bp |-> 21, msg |-> <<>>]
    ELSE IF op = "d" THEN [st |-> "ok", l_bp |-> 30, r_bp |-> 31, msg |-> <<>>]
    ELSE [st |-> "ok", l_bp |-> 10, r_bp |-> 11, msg |-> <<>>]

\* operation_priority: the binding powers 1.0, 1.1, ... are kept as tenths.
OperationPriority(op) ==
    IF op \in {"+", "-"} THEN [st |-> "ok", l_bp |-> 10, r_bp |-> 11, msg |-> <<>>]
    ELSE IF op \in {"*", "/"} THEN [st |-> "ok", l_bp |-> 20, r_bp |-> 21, msg |-> <<>>]
    ELSE IF op = "d" THEN [st |-> "ok", l_bp |-> 30, r_bp |-> 31, msg |-> <<>>]
    ELSE [st |-> "err", l_bp |-> 0, r_bp |-> 0, msg |-> <<"Unknown operator: ", op>>]

ParseOk(expr, tokens) == [st |-> "ok", expr |-> expr, tokens |-> tokens, msg |-> <<>>]

ParseErr(msg, tokens) == [st |-> "err", expr |-> NumberExpr(U(0)), tokens |-> tokens, msg |-> msg]

ParsePanic(msg, tokens) == [st |-> "panic", expr |-> NumberExpr(U(0)), tokens |-> tokens, msg |-> msg]

\* assert_eq!(lexer.next(), Token::Op(')'))
ClosingParenthesis(inner) ==
    IF LexerPeek(inner.tokens) = Op(")")
    THEN ParseOk(inner.expr, LexerPop(inner.tokens))
    ELSE ParsePanic(<<"assertion failed: left == right", LexerPeek(inner.tokens)>>,
                    LexerPop(inner.tokens))

RECURSIVE ParseExpression(_, _)
RECURSIVE ParseLoop(_, _, _)

\* parse_expression: [st, expr, tokens, msg], tokens being what the lexer still holds.
ParseExpression(tokens, min_bp) ==
    LET t    == LexerPeek(tokens)
        rest == LexerPop(tokens)
    IN  IF t.t = "Number" THEN ParseLoop(NumberExpr(t.n), rest, min_bp)
        ELSE IF t = Op("(")
        THEN LET inner == ParseExpression(rest, 0) IN
             IF inner.st # "ok" THEN inner
             ELSE LET closed == ClosingParenthesis(inner) IN
                  IF closed.st # "ok" THEN closed
                  ELSE ParseLoop(closed.expr, closed.tokens, min_bp)
        ELSE ParseErr(<<"Expected a number, found: ", t>>, rest)

\* the loop of parse_expression
ParseLoop(lhs, tokens, min_bp) ==
    LET t == LexerPeek(tokens) IN
    IF t = Eof \/ t = Op(")") THEN ParseOk(lhs, tokens)
    ELSE IF t.t # "Op" THEN ParseErr(<<"Expected an operator, found: ", t>>, tokens)
    ELSE LET bp == OperationPriority(t.c) IN
         IF bp.st # "ok" THEN ParseErr(bp.msg, tokens)
         ELSE IF bp.l_bp < min_bp THEN ParseOk(lhs, tokens)
         ELSE LET rhs == ParseExpression(LexerPop(tokens), bp.r_bp) IN
              IF rhs.st # "ok" THEN rhs
              ELSE ParseLoop(Operation(t.c, <<lhs, rhs.expr>>), rhs.tokens, min_bp)

\* Expression::try_from
TryFromStr(value) ==
    LET lexer == LexerNew(value) IN
    IF lexer.st = "err" THEN ParseErr(lexer.msg, <<>>)
    ELSE IF lexer.st = "panic" THEN ParsePanic(lexer.msg, <<>>)
    ELSE ParseExpression(lexer.tokens, 0)

(* ----------------------------- Evaluator --------------------------------- *)

\* DiceLogger::append
LoggerAppend(data, collection) == data \o collection

\* random_range(0..=high): the range started one too low.
RandomRangeFromZero(low, high) ==
    {f \in {U(i) : i \in 0..(MaxFace - 1)} : ULe(f, high)} \cup {high}

\* rng().random_range(low..=high), for low <= high: any value of the range; the
\* model draws among the MaxFace lowest ones and the highest.
RandomRange(low, high) ==
    {f \in {UAddWide(low, U(i)) : i \in 0..(MaxFace - 1)} : ULe(f, high)} \cup {high}

RECURSIVE SumWide(_)
SumWide(results) ==
    IF results = <<>> THEN U(0)
    ELSE UAddWide(SumWide(SubSeq(results, 1, Len(results) - 1)), results[Len(results)])

\* results.iter().sum(), in u32
Summed(results) ==
    LET w == SumWide(results) IN
    IF UOverflows(w) /\ overflow_checks
    THEN [st |-> "panic", sum |-> U(0), results |-> results, msg |-> <<"attempt to add with overflow">>]
    ELSE [st |-> "ok", sum |-> UWrap(w), results |-> results, msg |-> <<>>]

\* roll_dice: the set of [st, sum, results, msg] it can end with.  random_range
\* panics on the empty range 1..=0.  left (ghost) is the number of dice the
\* behaviour may still roll: a call for more is not followed.
RollDice(amount, sides, left) ==
    IF amount = U(0) THEN {[st |-> "ok", sum |-> U(0), results |-> <<>>, msg |-> <<>>]}
    ELSE IF ULt(sides, U(1))
    THEN {[st |-> "panic", sum |-> U(0), results |-> <<>>, msg |-> <<"cannot sample empty range">>]}
    ELSE IF ULt(U(left), amount) THEN {}
    ELSE {Summed(r) : r \in [1..amount[2] -> RandomRange(U(1), sides)]}

\* dice_logger is [some, data, origin, rolls]: Option<&mut DiceLogger>, with the
\* ghosts origin and rolls (the number of dice rolled so far).
EvOk(val, lg) == [st |-> "ok", val |-> val, lg |-> lg, msg |-> <<>>]

EvErr(msg, lg) == [st |-> "err", val |-> Zero(0), lg |-> lg, msg |-> msg]

EvPanic(msg, lg) == [st |-> "panic", val |-> Zero(0), lg |-> lg, msg |-> msg]

\* The 'd' arm of eval, for one outcome of roll_dice.
Rolled(r, lg, path) ==
    IF r.st = "panic" THEN EvPanic(r.msg, lg)
    ELSE EvOk(U32AsF32(r.sum),
              IF lg.some
              THEN [lg EXCEPT !.data = LoggerAppend(lg.data, r.results),
                              !.origin = lg.origin \o [i \in 1..Len(r.results) |-> path],
                              !.rolls = lg.rolls + Len(r.results)]
              ELSE [lg EXCEPT !.rolls = lg.rolls + Len(r.results)])

\* The match of eval with '*' sharing the arm of 'd'.
CombineStarRolls(operator, lhs, rhs, lg, path) ==
    IF operator = "+" THEN {EvOk(F32Add(lhs, rhs), lg)}
    ELSE IF operator = "-" THEN {EvOk(F32Sub(lhs, rhs), lg)}
    ELSE IF operator = "/" THEN {EvOk(F32Div(lhs, rhs), lg)}
    ELSE IF operator \in {"d", "*"}
    THEN {Rolled(r, lg, path) : r \in RollDice(F32AsU32(lhs), F32AsU32(rhs), MaxDice - lg.rolls)}
    ELSE {EvErr(<<"Unknown operator: ", operator>>, lg)}

\* match operator { ... } of eval
Combine(operator, lhs, rhs, lg, path) ==
    IF operator = "+" THEN {EvOk(F32Add(lhs, rhs), lg)}
    ELSE IF operator = "-" THEN {EvOk(F32Sub(lhs, rhs), lg)}
    ELSE IF operator = "*" THEN {EvOk(F32Mul(lhs, rhs), lg)}
    ELSE IF operator = "/" THEN {EvOk(F32Div(lhs, rhs), lg)}
    ELSE IF operator = "d"
    THEN {Rolled(r, lg, path) : r \in RollDice(F32AsU32(lhs), F32AsU32(rhs), MaxDice - lg.rolls)}
    ELSE {EvErr(<<"Unknown operator: ", operator>>, lg)}

RECURSIVE EvalOutcomes(_, _, _)

\* The operands evaluated last one first.
OperandsRhsFirst(operands, lg, path) ==
    UNION {
        IF r.st # "ok" THEN {[st |-> r.st, lhs |-> r.val, rhs |-> r.val, lg |-> r.lg, msg |-> r.msg]}
        ELSE {[st |-> l.st, lhs |-> l.val, rhs |-> r.val, lg |-> l.lg, msg |-> l.msg] :
                l \in EvalOutcomes(operands[1], r.lg, Append(path, 1))}
        : r \in EvalOutcomes(operands[Len(operands)], lg, Append(path, Len(operands))) }

\* lhs = operands.first().unwrap().eval(..)?; rhs = operands.last().unwrap().eval(..)?
\* The set of [st, lhs, rhs, lg, msg].
Operands(operands, lg, path) ==
    UNION {
        IF l.st # "ok" THEN {[st |-> l.st, lhs |-> l.val, rhs |-> l.val, lg |-> l.lg, msg |-> l.msg]}
        ELSE {[st |-> r.st, lhs |-> l.val, rhs |-> r.val, lg |-> r.lg, msg |-> r.msg] :
                r \in EvalOutcomes(operands[Len(operands)], l.lg, Append(path, Len(operands)))}
        : l \in EvalOutcomes(operands[1], lg, Append(path, 1)) }

\* Expression::eval: the set of [st, val, lg, msg] it can end with.  path is the
\* node's place in the tree (ghost).
EvalOutcomes(self, lg, path) ==
    IF self.tag = "Number" THEN {EvOk(U32AsF32(self.n), lg)}
    ELSE IF self.operands = <<>>
    THEN {EvPanic(<<"called Option::unwrap() on a None value">>, lg)}
    ELSE UNION {
        IF p.st = "err" THEN {EvErr(p.msg, p.lg)}
        ELSE IF p.st = "panic" THEN {EvPanic(p.msg, p.lg)}
        ELSE Combine(self.op, p.lhs, p.rhs, p.lg, path)
        : p \in Operands(self.operands, lg, path) }

(* ------------------------------ actions --------------------------------- *)

NotParsed == [st |-> "none", expr |-> NumberExpr(U(0)), msg |-> <<>>]

Init ==
    /\ input \in Inputs
    /\ overflow_checks \in BOOLEAN
    /\ pc = "start"
    /\ parsed = NotParsed
    /\ lexer_left = <<>>
    /\ logger = <<>>
    /\ origin = <<>>
    /\ rolls = 0
    /\ returned = <<>>

\* let expression : Expression = input.try_into()
TryFrom ==
    /\ pc = "start"
    /\ LET r == TryFromStr(input) IN
        /\ parsed' = [st |-> r.st, expr |-> r.expr, msg |-> r.msg]
        /\ lexer_left' = r.tokens
        /\ pc' = IF r.st = "panic" THEN "aborted" ELSE "parsed"
    /\ UNCHANGED <<input, overflow_checks, logger, origin, rolls, returned>>

Returned(o, logged) ==
    [st |-> o.st, val |-> o.val, msg |-> o.msg, logged |-> logged, from |-> Len(logger)]

\* expression.eval(&mut Some(&mut logger))
EvalLogged ==
    /\ pc = "parsed"
    /\ parsed.st = "ok"
    /\ Len(returned) < MaxEvals
    /\ \E o \in EvalOutcomes(parsed.expr, [some |-> TRUE, data |-> logger, origin |-> origin, rolls |-> rolls], <<>>) :
        /\ logger' = o.lg.data
        /\ origin' = o.lg.origin
        /\ rolls' = o.lg.rolls
        /\ returned' = Append(returned, Returned(o, TRUE))
        /\ pc' = IF o.st = "panic" THEN "aborted" ELSE pc
    /\ UNCHANGED <<input, overflow_checks, parsed, lexer_left>>

\* expression.eval(&mut None)
EvalNone ==
    /\ pc = "parsed"
    /\ parsed.st = "ok"
    /\ Len(returned) < MaxEvals
    /\ \E o \in EvalOutcomes(parsed.expr, [some |-> FALSE, data |-> <<>>, origin |-> <<>>, rolls |-> rolls], <<>>) :
        /\ rolls' = o.lg.rolls
        /\ returned' = Append(returned, Returned(o, FALSE))
        /\ pc' = IF o.st = "panic" THEN "aborted" ELSE pc
    /\ UNCHANGED <<input, overflow_checks, parsed, lexer_left, logger, origin>>

Next == TryFrom \/ EvalLogged \/ EvalNone

Spec == Init /\ [][Next]_vars

(* ------------------------- claims: vocabulary --------------------------- *)

Ops == {"+", "-", "*", "/", "d"}

Called == DOMAIN returned

TokensOf(text) == Reverse(LexerNew(text).tokens)

IsLegalChar(c) == c \in {"+", "-", "*", "/", "(", ")", "d", "D"} \/ IsDigit(c)

IsIllegalAt(text, i) == ~IsWhitespace(text[i]) /\ ~IsLegalChar(text[i])

HasIllegal(text) == \E i \in DOMAIN text : IsIllegalAt(text, i)

FirstIllegal(text) ==
    text[CHOOSE i \in DOMAIN text :
            IsIllegalAt(text, i) /\ \A j \in 1..(i - 1) : ~IsIllegalAt(text, j)]

AllDigits(text) == text # <<>> /\ \A i \in DOMAIN text : IsDigit(text[i])

\* The number a decimal text denotes, as an unreduced <<hi, lo>>.
RECURSIVE DecimalValue(_)
DecimalValue(text) ==
    IF text = <<>> THEN U(0)
    ELSE UMul10AddWide(DecimalValue(SubSeq(text, 1, Len(text) - 1)), ToDigit(text[Len(text)]))

\* The f32 val is the integer w, neither rounded nor saturated.
Exactly(val, w) ==
    /\ ~UOverflows(w)
    /\ val.k = "fin" /\ val.s = 0 /\ BitLen(val.m) + val.e <= 32
    /\ F32AsU32(val) = w
    /\ IF val.e >= 0 THEN TRUE ELSE val.e > 0 - MantBits /\ val.m % 2^(0 - val.e) = 0

\* The depth of parentheses after the tokens, -1 once a ')' had no '(' to close.
RECURSIVE ParenDepth(_)
ParenDepth(toks) ==
    IF toks = <<>> THEN 0
    ELSE LET before == ParenDepth(SubSeq(toks, 1, Len(toks) - 1))
             t      == toks[Len(toks)]
         IN  IF before < 0 THEN -1
             ELSE IF t = Op("(") THEN before + 1
             ELSE IF t = Op(")") THEN before - 1
             ELSE before

RECURSIVE NoDice(_)
NoDice(e) ==
    e.tag = "Number" \/ (e.op # "d" /\ \A i \in DOMAIN e.operands : NoDice(e.operands[i]))

RECURSIVE WellShaped(_)
WellShaped(e) ==
    \/ e.tag = "Number"
    \/ /\ e.tag = "Operation"
       /\ e.op \in Ops
       /\ Len(e.operands) = 2
       /\ \A i \in DOMAIN e.operands : WellShaped(e.operands[i])

NoLogger == [some |-> FALSE, data |-> <<>>, origin |-> <<>>, rolls |-> 0]

\* The value of an expression without dice.
ValueOf(e) == (CHOOSE o \in EvalOutcomes(e, NoLogger, <<>>) : TRUE).val

\* The parsed expression is `count d sides` with operands free of dice.
DiceRoot ==
    /\ parsed.st = "ok"
    /\ parsed.expr.tag = "Operation"
    /\ parsed.expr.op = "d"
    /\ NoDice(parsed.expr.operands[1])
    /\ NoDice(parsed.expr.operands[2])

DiceCount == F32AsU32(ValueOf(parsed.expr.operands[1]))

DiceSides == F32AsU32(ValueOf(parsed.expr.operands[2]))

\* What call i appended to the logger.
Appended(i) ==
    SubSeq(logger, returned[i].from + 1,
           IF i < Len(returned) THEN returned[i + 1].from ELSE Len(logger))

\* count * sides <= 2^24
ProductWithin24Bits(count, sides) ==
    \/ count = U(0)
    \/ /\ count[1] = 0
       /\ sides[1] < 2^8
       /\ count[2] <= 2^MantBits \div (sides[1] * Half + sides[2])

IsPrefix(s, t) == Len(s) <= Len(t) /\ SubSeq(t, 1, Len(s)) = s

\* Node p is evaluated no later than node q: p = q, or p lies below q, or p lies
\* in an earlier subtree than q.
PostOrderLe(p, q) ==
    \/ p = q
    \/ Len(q) < Len(p) /\ SubSeq(p, 1, Len(q)) = q
    \/ \E k \in 1..Min(Len(p), Len(q)) :
          /\ SubSeq(p, 1, k - 1) = SubSeq(q, 1, k - 1)
          /\ p[k] < q[k]

(* The grammar of standard precedence, by recursive descent:               *)
(*   level 1: level2 (('+' | '-') level2)*     level 2: level3 (('*' | '/') level3)* *)
(*   level 3: primary ('d' primary)*           primary: Number | '(' level1 ')'      *)
LevelOps(lv) == IF lv = 1 THEN {"+", "-"} ELSE IF lv = 2 THEN {"*", "/"} ELSE {"d"}

RECURSIVE RefLevel(_, _)
RECURSIVE RefTail(_, _, _)

RefLevel(toks, lv) ==
    IF lv <= 3
    THEN LET first == RefLevel(toks, lv + 1) IN
         IF first.ok THEN RefTail(first.expr, first.rest, lv) ELSE first
    ELSE IF toks = <<>> THEN [ok |-> FALSE, expr |-> NumberExpr(U(0)), rest |-> toks]
    ELSE IF Head(toks).t = "Number"
    THEN [ok |-> TRUE, expr |-> NumberExpr(Head(toks).n), rest |-> Tail(toks)]
    ELSE IF Head(toks) = Op("(")
    THEN LET inner == RefLevel(Tail(toks), 1) IN
         IF inner.ok /\ inner.rest # <<>> /\ Head(inner.rest) = Op(")")
         THEN [ok |-> TRUE, expr |-> inner.expr, rest |-> Tail(inner.rest)]
         ELSE [ok |-> FALSE, expr |-> NumberExpr(U(0)), rest |-> toks]
    ELSE [ok |-> FALSE, expr |-> NumberExpr(U(0)), rest |-> toks]

RefTail(lhs, toks, lv) ==
    IF toks # <<>> /\ Head(toks).t = "Op" /\ Head(toks).c \in LevelOps(lv)
    THEN LET rhs == RefLevel(Tail(toks), lv + 1) IN
         IF rhs.ok THEN RefTail(Operation(Head(toks).c, <<lhs, rhs.expr>>), rhs.rest, lv)
         ELSE rhs
    ELSE [ok |-> TRUE, expr |-> lhs, rest |-> toks]

LexedOk == LexerNew(input).st = "ok"

WellFormed == LexedOk /\ RefLevel(TokensOf(input), 1).ok /\ RefLevel(TokensOf(input), 1).rest = <<>>

\* try_from has returned and eval has not been called yet.
JustParsed == parsed.st # "none" /\ returned = <<>>

(* ------------------------------ claims ---------------------------------- *)

\* C1: when the token stream has an opening parenthesis that no closing one
\* matches (and no other parenthesis defect), try_from returns an Err value and
\* does not panic.
C1_UnclosedParenthesisIsError ==
    (JustParsed /\ LexedOk /\ ParenDepth(TokensOf(input)) > 0) => parsed.st = "err"

\* C2: evaluating `count d sides` with count >= 1 and a side count that
\* truncates to 0 returns an Err value; it does not panic.
C2_NoSidesIsError ==
    (DiceRoot /\ ULe(U(1), DiceCount) /\ DiceSides = U(0))
        => \A i \in Called : returned[i].st = "err"

\* C3 as stated: for all count >= 0 and sides >= 1, eval of `count d sides` with a
\* logger returns Ok, appends exactly count values, each in [1, sides], and the
\* result is exactly their sum.
C3_RollsLoggedAndSummed ==
    (DiceRoot /\ ULe(U(1), DiceSides)) =>
        \A i \in Called : returned[i].logged =>
            /\ returned[i].st = "ok"
            /\ U(Len(Appended(i))) = DiceCount
            /\ \A j \in DOMAIN Appended(i) :
                  ULe(U(1), Appended(i)[j]) /\ ULe(Appended(i)[j], DiceSides)
            /\ Exactly(returned[i].val, SumWide(Appended(i)))

\* C3 amended: the same for all count >= 0 and sides >= 1 with
\* count * sides <= 2^24.
C3_RollsLoggedAndSummedWithin24Bits ==
    (DiceRoot /\ ULe(U(1), DiceSides) /\ ProductWithin24Bits(DiceCount, DiceSides)) =>
        \A i \in Called : returned[i].logged =>
            /\ returned[i].st = "ok"
            /\ U(Len(Appended(i))) = DiceCount
            /\ \A j \in DOMAIN Appended(i) :
                  ULe(U(1), Appended(i)[j]) /\ ULe(Appended(i)[j], DiceSides)
            /\ Exactly(returned[i].val, SumWide(Appended(i)))

C3_Witness ==
    /\ DiceRoot /\ DiceCount = U(2) /\ DiceSides = U(2)
    /\ \E i \in Called : returned[i].logged /\ returned[i].st = "ok" /\ Len(Appended(i)) = 2

\* C4: for every token sequence the grammar of standard precedence accepts
\* ('d' over '*' '/' over '+' '-', each level grouping to the left, a
\* parenthesised expression being one operand), try_from returns that grammar's
\* tree; and "2+3*4" evaluates to 14, "(2+3)*4" to 20, "15+30000/(2*10)" to 1515.
C4_StandardPrecedence ==
    /\ (JustParsed /\ WellFormed) =>
          parsed.st = "ok" /\ parsed.expr = RefLevel(TokensOf(input), 1).expr
    /\ \A i \in Called :
          /\ input = <<"2", "+", "3", "*", "4">> => returned[i].val = F(14)
          /\ input = <<"(", "2", "+", "3", ")", "*", "4">> => returned[i].val = F(20)
          /\ input = <<"1", "5", "+", "3", "0", "0", "0", "0", "/", "(", "2", "*", "1", "0", ")">>
                => returned[i].val = F(1515)

C4_Witness ==
    /\ input = <<"2", "-", "2", "/", "2">>
    /\ parsed.st = "ok"
    /\ parsed.expr.op = "-"
    /\ parsed.expr.operands[2].op = "/"
    /\ returned # <<>>

\* C5: a valid expression without 'd' returns the same result at every eval and
\* leaves a supplied logger as it was, empty or not.
C5_NoDiceIsDeterministicAndSilent ==
    (parsed.st = "ok" /\ NoDice(parsed.expr)) =>
        /\ \A i, j \in Called :
              /\ returned[i].st = returned[j].st
              /\ returned[i].val = returned[j].val
              /\ returned[i].msg = returned[j].msg
        /\ logger = <<>>
        /\ JustParsed =>
              \A data \in {<<>>, <<U(4), U(1)>>} :
                 LET outs == EvalOutcomes(parsed.expr,
                                [some |-> TRUE, data |-> data,
                                 origin |-> [i \in DOMAIN data |-> <<>>], rolls |-> 0],
                                <<>>)
                 IN  Cardinality(outs) = 1 /\ \A o \in outs : o.lg.data = data

C5_Witness ==
    /\ parsed.st = "ok" /\ NoDice(parsed.expr) /\ parsed.expr.tag = "Operation"
    /\ Len(returned) = 2
    /\ returned[1].logged /\ returned[2].logged

\* C6: when the text has a non-whitespace character outside the alphabet,
\* try_from returns the Err that names the first such character.
C6_IllegalCharacterIsReported ==
    (JustParsed /\ HasIllegal(input)) =>
        parsed.st = "err" /\ parsed.msg = <<"Unexpected character: ", FirstIllegal(input)>>

\* C7 as stated: for every decimal literal text of a number n, try_from returns
\* Number(n) without overflow or wrap-around and eval returns exactly n.
C7_LiteralIsExact ==
    (parsed.st # "none" /\ AllDigits(input)) =>
        /\ parsed.st = "ok"
        /\ parsed.expr = NumberExpr(DecimalValue(input))
        /\ \A i \in Called : returned[i].st = "ok" /\ Exactly(returned[i].val, DecimalValue(input))

\* C7 amended: for every decimal literal text of a number n < 2^32, try_from
\* returns Number(n) and eval returns Ok; the value is exactly n when n <= 2^24.
C7_LiteralIsExactUpTo24Bits ==
    (parsed.st # "none" /\ AllDigits(input) /\ ~UOverflows(DecimalValue(input))) =>
        /\ parsed.st = "ok"
        /\ parsed.expr = NumberExpr(DecimalValue(input))
        /\ \A i \in Called :
              /\ returned[i].st = "ok"
              /\ ULe(DecimalValue(input), U(2^MantBits))
                    => Exactly(returned[i].val, DecimalValue(input))

C7_Witness ==
    /\ input = <<"1", "6", "7", "7", "7", "2", "1", "6">>
    /\ returned # <<>>
    /\ Exactly(returned[1].val, U(2^MantBits))

\* What a step appended to origin.
NewOrigins == SubSeq(origin', Len(origin) + 1, Len(origin'))

C9_WholeStreamConsumed ==
    (JustParsed /\ parsed.st = "ok") => lexer_left = <<>>

\* C10: every Operation of a returned Expression has two operands and an
\* operator among + - * / d, and eval of it neither returns "Unknown operator"
\* nor panics on a missing operand.
C10_ParserTreesAreWellShaped ==
    /\ (JustParsed /\ parsed.st = "ok") => WellShaped(parsed.expr)
    /\ \A i \in Called :
          /\ returned[i].st # "err"
          /\ returned[i].msg # <<"called Option::unwrap() on a None value">>

C10_Witness ==
    /\ parsed.st = "ok" /\ parsed.expr.tag = "Operation"
    /\ parsed.expr.operands[1].tag = "Operation"
    /\ returned # <<>> /\ returned[1].st = "ok"

====
